---------------------------- MODULE Spec2Model ----------------------------
(***************************************************************************)
(* Model of the ARMA/GARCH pull-model training service:                    *)
(*   training_service.py    the three endpoints and the two batch loops    *)
(*   financial_models.py    train_and_extract_params                       *)
(*   database_retrieval.py  fetch_price_history, save_model_results,       *)
(*                          get_latest_metrics                             *)
(* Floats are modelled by naturals (0 stands for 0.0); a Python dict is a  *)
(* function whose DOMAIN is the set of keys present.                       *)
(***************************************************************************)
EXTENDS Integers, Sequences, FiniteSets, TLC

(***************************************************************************)
(* Bounds of the model.                                                    *)
(***************************************************************************)
\* HTTP requests to /train_sync and /train_batch in one behaviour
MaxReqs == 2
\* longest symbol list of a request
MaxBatch == 2
\* longest price series the Price Source returns
MaxPrices == 11
\* largest coefficient value an estimator produces
MaxCoef == 1
\* largest value the wall clock reaches
MaxClock == 1
\* the fits two overlapping batches start from give coefficients 1..MaxFit
MaxFit == 2

\* the literal 10 of the sufficiency gates
MinObservations == 10

Symbols == {"A", "B"}
Reqs == 1..MaxReqs

VARIABLES
    store,        \* ClickHouse table model_metrics: the rows, in insertion order
    now,          \* the last reading of the wall clock datetime.now()
    kind,         \* per request: "none", "sync" (POST /train_sync), "batch" (POST /train_batch)
    symbols,      \* per request: payload.symbols
    tasks,        \* per request: the BackgroundTasks queue, each task the argument of process_batch_logic
    pc,           \* per request: "idle", "fetch", "fit", "save", "sent", "crashed"
    idx,          \* per request: position of the for loop in the symbol list
    prices,       \* per request: local variable prices
    model_result, \* per request: local variable model_result
    out,          \* per request: all_metrics (sync) or results_summary (deferred)
    response,     \* per request: the HTTP response, code 0 while none was sent
    done,         \* per request: how many of its background tasks have run to the end
    log,          \* per request: the logger calls of the loop, in order
    calls,        \* per request: the collaborator calls made for it, in order
    inflight,     \* per request: the row save_model_results has built and not yet inserted
    lastRead      \* the answer of the last GET /results/{symbol} since the last insert

vars == <<store, now, kind, symbols, tasks, pc, idx, prices, model_result,
          out, response, done, log, calls, inflight, lastRead>>

(***************************************************************************)
(* Python values.                                                          *)
(***************************************************************************)
EmptyMap == [k \in {} |-> 0]

\* dict.get(k, d)
Get(m, k, d) == IF k \in DOMAIN m THEN m[k] ELSE d

\* truthiness of dict.get(k): None (absent) and 0.0 are falsy
Truthy(m, k) == k \in DOMAIN m /\ m[k] # 0

FlatKeys == {"ar_coeff", "ma_coeff", "const", "omega", "alpha", "beta", "garch_volatility"}

\* a sub-mapping entry of a metrics dict: absent, a dict, or some other value
NoNested == [kind |-> "absent", map |-> EmptyMap]

\* a price series of n positive observations, by its length
NoPrices == [n |-> 0]

NoResult == [success |-> FALSE, error |-> "", symbol |-> "", flat |-> EmptyMap,
             arma |-> NoNested, garch |-> NoNested]

NoResponse == [code |-> 0, status |-> "", results |-> <<>>, queued |-> 0]


(***************************************************************************)
(* What the external collaborators may answer: the inputs of the model.    *)
(***************************************************************************)
\* the query of fetch_price_history either raises or returns the symbol's rows
PriceLens == {0, MinObservations - 1} \cup (MinObservations..MaxPrices)

PriceSeriesSet == {[n |-> n] : n \in PriceLens}

PriceQueries ==
    {[raises |-> TRUE, rows |-> NoPrices]}
        \cup {[raises |-> FALSE, rows |-> p] : p \in PriceSeriesSet}

\* parameter names of the two estimators, as the library versions spell them
ArmaParams(c) == [k \in {"ar.L1", "ma.L1", "const"} |-> c]
GarchParamsNew(c) == [k \in {"omega", "alpha[1]", "beta[1]"} |-> c]

\* one run of ARIMA(...).fit() and arch_model(...).fit(): either may raise
EstimatorOutcomes ==
    {[arma_raises |-> TRUE, garch_raises |-> FALSE, arma |-> EmptyMap,
      garch |-> EmptyMap, vol |-> 0],
     [arma_raises |-> FALSE, garch_raises |-> TRUE, arma |-> ArmaParams(1),
      garch |-> EmptyMap, vol |-> 0]}
        \cup {[arma_raises |-> FALSE, garch_raises |-> FALSE, arma |-> ArmaParams(c),
               garch |-> GarchParamsNew(c), vol |-> c] : c \in 1..MaxCoef}

\* the ClickHouse client of one call: get_db_client() or the statement may raise
DbOutcomes == {"ok", "raises"}

(***************************************************************************)
(* database_retrieval.fetch_price_history                                  *)
(***************************************************************************)
fetch_price_history(q) == IF q.raises THEN NoPrices ELSE q.rows

(***************************************************************************)
(* financial_models.train_and_extract_params                               *)
(* The result is [raised, value]: raised is TRUE when an exception leaves  *)
(* the function.                                                           *)
(***************************************************************************)
\* len(returns): the first observation has no predecessor and is dropped
ReturnsLen(p) == IF p.n = 0 THEN 0 ELSE p.n - 1

FailureResult(msg) ==
    [success |-> FALSE, error |-> msg, symbol |-> "", flat |-> EmptyMap,
     arma |-> NoNested, garch |-> NoNested]

FittedResults(est) ==
    [k \in FlatKeys |->
        CASE k = "ar_coeff" -> Get(est.arma, "ar.L1", 0)
          [] k = "ma_coeff" -> Get(est.arma, "ma.L1", 0)
          [] k = "const" -> Get(est.arma, "const", 0)
          [] k = "omega" -> Get(est.garch, "omega", 0)
          [] k = "alpha" -> Get(est.garch, "alpha[1]", Get(est.garch, "alpha", 0))
          [] k = "beta" -> Get(est.garch, "beta[1]", Get(est.garch, "beta", 0))
          [] OTHER -> est.vol]

\* train_and_extract_params without its try/except: an estimator's exception leaves it
train_without_except(p, est) ==
    IF ReturnsLen(p) < MinObservations
    THEN [raised |-> FALSE,
          value |-> FailureResult("Not enough return observations to train models")]
    ELSE IF est.arma_raises \/ est.garch_raises
    THEN [raised |-> TRUE, value |-> FailureResult("")]
    ELSE [raised |-> FALSE,
          value |-> [success |-> TRUE, error |-> "", symbol |-> "",
                     flat |-> FittedResults(est), arma |-> NoNested,
                     garch |-> NoNested]]

train_and_extract_params(p, est) ==
    IF ReturnsLen(p) < MinObservations
    THEN [raised |-> FALSE,
          value |-> FailureResult("Not enough return observations to train models")]
    ELSE IF est.arma_raises
    THEN [raised |-> FALSE, value |-> FailureResult("arma")]
    ELSE IF est.garch_raises
    THEN [raised |-> FALSE, value |-> FailureResult("garch")]
    ELSE [raised |-> FALSE,
          value |-> [success |-> TRUE, error |-> "", symbol |-> "",
                     flat |-> FittedResults(est), arma |-> NoNested,
                     garch |-> NoNested]]

(***************************************************************************)
(* database_retrieval.save_model_results                                   *)
(***************************************************************************)
\* the nested lookup that knows one spelling only
NestedOrSecondOnly(nested, k1, k2) ==
    IF nested.kind = "scalar" THEN [raised |-> TRUE, value |-> 0]
    ELSE IF Truthy(nested.map, k2) THEN [raised |-> FALSE, value |-> nested.map[k2]]
    ELSE [raised |-> FALSE, value |-> 0]

\* a.get(k1) or a.get(k2): .get on a value that is no dict raises AttributeError
NestedOr(nested, k1, k2) ==
    IF nested.kind = "scalar" THEN [raised |-> TRUE, value |-> 0]
    ELSE IF Truthy(nested.map, k1) THEN [raised |-> FALSE, value |-> nested.map[k1]]
    ELSE IF Truthy(nested.map, k2) THEN [raised |-> FALSE, value |-> nested.map[k2]]
    ELSE [raised |-> FALSE, value |-> 0]

\* the lookup taking a flattened key that is present, whatever its value
CascadeKeyPresent(metrics, fk, nested, k1, k2) ==
    IF fk \in DOMAIN metrics.flat
    THEN [raised |-> FALSE, value |-> metrics.flat[fk]]
    ELSE NestedOr(nested, k1, k2)

\* metrics.get(fk) or nested.get(k1) or nested.get(k2) or 0.0
Cascade(metrics, fk, nested, k1, k2) ==
    IF Truthy(metrics.flat, fk)
    THEN [raised |-> FALSE, value |-> metrics.flat[fk]]
    ELSE NestedOr(nested, k1, k2)

\* the body of the try block: the row and whether an exception ended it
SaveBody(symbol, metrics, ts, db) ==
    LET ar == Cascade(metrics, "ar_coeff", metrics.arma, "ar_coef", "ar_coeff")
        ma == Cascade(metrics, "ma_coeff", metrics.arma, "ma_coef", "ma_coeff")
        vol == Cascade(metrics, "garch_volatility", metrics.garch,
                       "last_volatility", "garch_volatility")
    IN  [raised |-> db = "raises" \/ ar.raised \/ ma.raised \/ vol.raised,
         row |-> [timestamp |-> ts, symbol |-> symbol, ar_param |-> ar.value,
                  ma_param |-> ma.value, volatility |-> vol.value]]

\* save_model_results without its try/except
save_without_except(symbol, metrics, ts, db) ==
    LET body == SaveBody(symbol, metrics, ts, db)
    IN  [raised |-> body.raised, stored |-> ~body.raised, row |-> body.row]

\* [raised, stored, row]: the except clause logs and swallows every exception
save_model_results(symbol, metrics, ts, db) ==
    LET body == SaveBody(symbol, metrics, ts, db)
    IN  [raised |-> FALSE, stored |-> ~body.raised, row |-> body.row]

(***************************************************************************)
(* database_retrieval.get_latest_metrics                                   *)
(***************************************************************************)
NoData == [symbol |-> "", ar_coeff |-> 0, ma_coeff |-> 0, garch_volatility |-> 0,
           calculated_at |-> 0]

RowsOf(table, symbol) == {i \in 1..Len(table) : table[i].symbol = symbol}

\* the query with ORDER BY timestamp ASC
EarliestRows(table, symbol) ==
    {i \in RowsOf(table, symbol) :
        \A j \in RowsOf(table, symbol) : table[i].timestamp <= table[j].timestamp}

\* the rows ORDER BY timestamp DESC LIMIT 1 may return: rows of equal timestamp
\* come in an order the store does not fix
LatestRows(table, symbol) ==
    {i \in RowsOf(table, symbol) :
        \A j \in RowsOf(table, symbol) : table[j].timestamp <= table[i].timestamp}

\* get_latest_metrics answering a record of defaults when there is no row
get_latest_or_default(table, symbol, db, i) ==
    IF db = "raises" THEN [found |-> FALSE, data |-> NoData]
    ELSE IF i = 0 THEN [found |-> TRUE, data |-> [NoData EXCEPT !.symbol = symbol]]
    ELSE [found |-> TRUE,
          data |-> [symbol |-> symbol, ar_coeff |-> table[i].ar_param,
                    ma_coeff |-> table[i].ma_param,
                    garch_volatility |-> table[i].volatility,
                    calculated_at |-> table[i].timestamp]]

\* [found, data] for the row the query returned (0: no row); found = FALSE is None
get_latest_metrics(table, symbol, db, i) ==
    IF db = "raises" \/ i = 0
    THEN [found |-> FALSE, data |-> NoData]
    ELSE [found |-> TRUE,
          data |-> [symbol |-> symbol, ar_coeff |-> table[i].ar_param,
                    ma_coeff |-> table[i].ma_param,
                    garch_volatility |-> table[i].volatility,
                    calculated_at |-> table[i].timestamp]]

\* what the query can return for the symbol
QueryResults(table, symbol) ==
    IF RowsOf(table, symbol) = {} THEN {0} ELSE LatestRows(table, symbol)


(***************************************************************************)
(* training_service: the requests and the two loops.                       *)
(***************************************************************************)
SymbolLists == UNION {[1..n -> Symbols] : n \in 0..MaxBatch}

\* the list the for loop of request r runs over
Batch(r) == IF kind[r] = "sync" THEN symbols[r] ELSE tasks[r][done[r] + 1]

\* the loop walking its list from the end
SymbolReversed(r) == Batch(r)[Len(Batch(r)) + 1 - idx[r]]

\* for symbol in symbols: the symbol the loop is at
Symbol(r) == Batch(r)[idx[r]]

\* a collaborator call: ok is, for a fetch, that the series has MinObservations
\* prices, for a fit, that it succeeded, for a save, that the row was inserted
Call(op, r, ok) == [op |-> op, i |-> idx[r], symbol |-> Symbol(r), ok |-> ok]

Logged(tag, symbol, n) == [tag |-> tag, symbol |-> symbol, n |-> n]

\* no row built: save_model_results is not between datetime.now() and client.insert
NoRow == [timestamp |-> 0, symbol |-> "", ar_param |-> 0, ma_param |-> 0, volatility |-> 0]

\* no GET /results since the last insert
NoRead == [symbol |-> "", code |-> 0, data |-> NoData, ok |-> FALSE]

Init ==
    /\ store = <<>>
    /\ now = 0
    /\ kind = [r \in Reqs |-> "none"]
    /\ symbols = [r \in Reqs |-> <<>>]
    /\ tasks = [r \in Reqs |-> <<>>]
    /\ pc = [r \in Reqs |-> "idle"]
    /\ idx = [r \in Reqs |-> 0]
    /\ prices = [r \in Reqs |-> NoPrices]
    /\ model_result = [r \in Reqs |-> NoResult]
    /\ out = [r \in Reqs |-> <<>>]
    /\ response = [r \in Reqs |-> NoResponse]
    /\ done = [r \in Reqs |-> 0]
    /\ log = [r \in Reqs |-> <<>>]
    /\ calls = [r \in Reqs |-> <<>>]
    /\ inflight = [r \in Reqs |-> NoRow]
    /\ lastRead = NoRead

\* requests take the slots in order
Arrives(r) == pc[r] = "idle" /\ \A q \in 1..(r - 1) : pc[q] # "idle"

BadRequest == [code |-> 400, status |-> "No symbols provided", results |-> <<>>, queued |-> 0]

\* POST /train_sync without the test for an empty list
trigger_training_sync_unchecked(r, syms) ==
    /\ Arrives(r)
    /\ kind' = [kind EXCEPT ![r] = "sync"]
    /\ symbols' = [symbols EXCEPT ![r] = syms]
    /\ IF syms = <<>>
       THEN /\ response' = [response EXCEPT ![r] =
                   [code |-> 200, status |-> "Processing complete",
                    results |-> <<>>, queued |-> 0]]
            /\ pc' = [pc EXCEPT ![r] = "sent"]
            /\ idx' = idx
       ELSE /\ response' = response
            /\ pc' = [pc EXCEPT ![r] = "fetch"]
            /\ idx' = [idx EXCEPT ![r] = 1]
    /\ UNCHANGED <<store, now, tasks, prices, model_result, out, done, log, calls, inflight, lastRead>>

\* POST /train_sync up to the call of process_batch_logic_sync
trigger_training_sync(r, syms) ==
    /\ Arrives(r)
    /\ kind' = [kind EXCEPT ![r] = "sync"]
    /\ symbols' = [symbols EXCEPT ![r] = syms]
    /\ IF syms = <<>>
       THEN /\ response' = [response EXCEPT ![r] = BadRequest]
            /\ pc' = [pc EXCEPT ![r] = "sent"]
            /\ idx' = idx
       ELSE /\ response' = response
            /\ pc' = [pc EXCEPT ![r] = "fetch"]
            /\ idx' = [idx EXCEPT ![r] = 1]
    /\ UNCHANGED <<store, now, tasks, prices, model_result, out, done, log, calls, inflight, lastRead>>

\* POST /train_batch scheduling one task per symbol
trigger_training_per_symbol(r, syms) ==
    /\ Arrives(r)
    /\ kind' = [kind EXCEPT ![r] = "batch"]
    /\ symbols' = [symbols EXCEPT ![r] = syms]
    /\ IF syms = <<>>
       THEN /\ response' = [response EXCEPT ![r] = BadRequest]
            /\ tasks' = tasks
       ELSE /\ tasks' = [tasks EXCEPT ![r] = [k \in 1..Len(syms) |-> <<syms[k]>>]]
            /\ response' = [response EXCEPT ![r] =
                   [code |-> 200, status |-> "Batch processing started",
                    results |-> <<>>, queued |-> Len(syms)]]
    /\ pc' = [pc EXCEPT ![r] = "sent"]
    /\ UNCHANGED <<store, now, idx, prices, model_result, out, done, log, calls, inflight, lastRead>>

\* POST /train_batch: add_task, then the acknowledgment
trigger_training(r, syms) ==
    /\ Arrives(r)
    /\ kind' = [kind EXCEPT ![r] = "batch"]
    /\ symbols' = [symbols EXCEPT ![r] = syms]
    /\ IF syms = <<>>
       THEN /\ response' = [response EXCEPT ![r] = BadRequest]
            /\ tasks' = tasks
       ELSE /\ tasks' = [tasks EXCEPT ![r] = Append(@, syms)]
            /\ response' = [response EXCEPT ![r] =
                   [code |-> 200, status |-> "Batch processing started",
                    results |-> <<>>, queued |-> Len(syms)]]
    /\ pc' = [pc EXCEPT ![r] = "sent"]
    /\ UNCHANGED <<store, now, idx, prices, model_result, out, done, log, calls, inflight, lastRead>>

\* the loop is over: "Batch complete" is logged, the synchronous handler returns
\* its response, the background task ends
Finish(r, newOut, newLog) ==
    /\ out' = [out EXCEPT ![r] = newOut]
    /\ idx' = idx
    /\ pc' = [pc EXCEPT ![r] = "sent"]
    /\ log' = [log EXCEPT ![r] =
           Append(newLog, Logged("batch_complete", "", Len(newOut)))]
    /\ IF kind[r] = "sync"
       THEN /\ response' = [response EXCEPT ![r] =
                   [code |-> 200, status |-> "Processing complete",
                    results |-> newOut, queued |-> 0]]
            /\ done' = done
       ELSE /\ response' = response
            /\ done' = [done EXCEPT ![r] = @ + 1]

\* the end of one iteration: the next symbol, or the end of the loop
Continue(r, newOut, newLog) ==
    IF idx[r] < Len(Batch(r))
    THEN /\ out' = [out EXCEPT ![r] = newOut]
         /\ idx' = [idx EXCEPT ![r] = @ + 1]
         /\ pc' = [pc EXCEPT ![r] = "fetch"]
         /\ log' = [log EXCEPT ![r] = newLog]
         /\ UNCHANGED <<response, done>>
    ELSE Finish(r, newOut, newLog)

\* BackgroundTasks runs the next task once the response has been sent
StartTask(r) ==
    /\ kind[r] = "batch"
    /\ pc[r] = "sent"
    /\ done[r] < Len(tasks[r])
    /\ IF Batch(r) = <<>>
       THEN Finish(r, <<>>, log[r])
       ELSE /\ pc' = [pc EXCEPT ![r] = "fetch"]
            /\ idx' = [idx EXCEPT ![r] = 1]
            /\ out' = [out EXCEPT ![r] = <<>>]
            /\ UNCHANGED <<response, done, log>>
    /\ UNCHANGED <<store, now, kind, symbols, tasks, prices, model_result, calls, inflight, lastRead>>

\* an exception that leaves the loop: the handler answers 500, the task dies
Crash(r) ==
    /\ pc' = [pc EXCEPT ![r] = "crashed"]
    /\ response' = [response EXCEPT ![r] =
           IF kind[r] = "sync"
           THEN [code |-> 500, status |-> "Internal Server Error",
                 results |-> <<>>, queued |-> 0]
           ELSE @]
    /\ UNCHANGED <<idx, out, log, done>>

\* the gate with only its emptiness test
GateEmptyOnly(r, p) ==
    IF p.n = 0
    THEN (IF kind[r] = "sync" THEN "skip_insufficient" ELSE "skip_no_data")
    ELSE "pass"

\* prices = fetch_price_history(symbol) and the gate on the price series
Gate(r, p) ==
    IF kind[r] = "sync"
    THEN IF p.n = 0 \/ p.n < MinObservations
         THEN "skip_insufficient" ELSE "pass"
    ELSE IF p.n = 0 THEN "skip_no_data"
         ELSE IF p.n < MinObservations THEN "skip_not_enough" ELSE "pass"

\* a failed symbol ending the loop (return in place of continue)
OnFailureAbort(r, tag) ==
    Finish(r, out[r], Append(log[r], Logged(tag, Symbol(r), 0)))

\* a failed symbol handed to save_model_results all the same
OnFailureStore(r, tag) ==
    /\ pc' = [pc EXCEPT ![r] = "save"]
    /\ log' = [log EXCEPT ![r] = Append(@, Logged(tag, Symbol(r), 0))]
    /\ UNCHANGED <<idx, out, response, done>>

\* a failed symbol fetched once more (a retry in place of continue)
OnFailureRetry(r, tag) ==
    /\ pc' = [pc EXCEPT ![r] = "fetch"]
    /\ log' = [log EXCEPT ![r] = Append(@, Logged(tag, Symbol(r), 0))]
    /\ UNCHANGED <<idx, out, response, done>>

\* a symbol that is skipped or whose training failed: logged, and the loop goes on
OnFailure(r, tag) ==
    Continue(r, out[r], Append(log[r], Logged(tag, Symbol(r), 0)))

Fetch(r) ==
    /\ pc[r] = "fetch"
    /\ \E q \in PriceQueries :
        LET p == fetch_price_history(q)
            g == Gate(r, p)
        IN  /\ calls' = [calls EXCEPT ![r] =
                   Append(@, Call("fetch", r, p.n >= MinObservations))]
            /\ IF g = "pass"
               THEN /\ prices' = [prices EXCEPT ![r] = p]
                    /\ pc' = [pc EXCEPT ![r] = "fit"]
                    /\ UNCHANGED <<idx, out, log, response, done>>
               ELSE /\ prices' = prices
                    /\ OnFailure(r, g)
    /\ UNCHANGED <<store, now, kind, symbols, tasks, model_result, inflight, lastRead>>

\* both loops going on to save_model_results
OnSuccessStore(r, result) ==
    /\ model_result' = [model_result EXCEPT ![r] = result]
    /\ pc' = [pc EXCEPT ![r] = "save"]
    /\ UNCHANGED <<idx, out, log, response, done>>

\* the synchronous loop putting each new record in front of the earlier ones
OnSuccessPrepend(r, result) ==
    IF kind[r] = "sync"
    THEN /\ model_result' = model_result
         /\ Continue(r, <<[result EXCEPT !.symbol = Symbol(r)]>> \o out[r], log[r])
    ELSE /\ model_result' = [model_result EXCEPT ![r] = result]
         /\ pc' = [pc EXCEPT ![r] = "save"]
         /\ UNCHANGED <<idx, out, log, response, done>>

\* model_result.get("success") holds: the synchronous loop tags the result with
\* its symbol and appends it, the deferred loop goes on to save_model_results
OnSuccess(r, result) ==
    IF kind[r] = "sync"
    THEN /\ model_result' = model_result
         /\ Continue(r, Append(out[r], [result EXCEPT !.symbol = Symbol(r)]), log[r])
    ELSE /\ model_result' = [model_result EXCEPT ![r] = result]
         /\ pc' = [pc EXCEPT ![r] = "save"]
         /\ UNCHANGED <<idx, out, log, response, done>>

\* model_result = train_and_extract_params(prices) and the branch on success
Fit(r) ==
    /\ pc[r] = "fit"
    /\ \E est \in EstimatorOutcomes :
        LET res == train_and_extract_params(prices[r], est)
        IN  /\ calls' = [calls EXCEPT ![r] =
                   Append(@, Call("fit", r, ~res.raised /\ res.value.success))]
            /\ prices' = [prices EXCEPT ![r] = NoPrices]
            /\ IF res.raised
               THEN Crash(r) /\ model_result' = model_result
               ELSE IF res.value.success
               THEN OnSuccess(r, res.value)
               ELSE /\ model_result' = model_result
                    /\ OnFailure(r, "training_failed")
    /\ UNCHANGED <<store, now, kind, symbols, tasks, inflight, lastRead>>

\* the entry {symbol: "Success"} of results_summary
SuccessEntry(symbol) == [NoResult EXCEPT !.success = TRUE, !.symbol = symbol]

\* an insert that replaces the rows of the symbol when it has any
InsertReplacing(table, row) ==
    IF \E i \in DOMAIN table : table[i].symbol = row.symbol
    THEN [i \in DOMAIN table |-> IF table[i].symbol = row.symbol THEN row ELSE table[i]]
    ELSE Append(table, row)

\* client.insert(...): one more row at the end of the table
Insert(table, row) == Append(table, row)

\* save_model_results(symbol, model_result) up to the row it builds: the lookups
\* and the reading of the clock. An exception in the lookups is logged there, and
\* the loop goes on with results_summary.append(...)
Save(r) ==
    /\ pc[r] = "save"
    /\ \E t \in now..MaxClock :
        LET sv == save_model_results(Symbol(r), model_result[r], t, "ok")
        IN  /\ model_result' = model_result
            /\ UNCHANGED <<store, lastRead>>
            /\ IF sv.raised
               THEN /\ t = now
                    /\ calls' = [calls EXCEPT ![r] = Append(@, Call("save", r, FALSE))]
                    /\ Crash(r)
                    /\ UNCHANGED <<now, inflight>>
               ELSE IF ~sv.stored
               THEN /\ t = now
                    /\ calls' = [calls EXCEPT ![r] = Append(@, Call("save", r, FALSE))]
                    /\ Continue(r, Append(out[r], SuccessEntry(Symbol(r))),
                           Append(log[r], Logged("error_saving", Symbol(r), 0)))
                    /\ UNCHANGED <<now, inflight>>
               ELSE /\ now' = t
                    /\ inflight' = [inflight EXCEPT ![r] = sv.row]
                    /\ pc' = [pc EXCEPT ![r] = "insert"]
                    /\ UNCHANGED <<calls, idx, out, log, response, done>>
    /\ UNCHANGED <<kind, symbols, tasks, prices>>

\* the rest of save_model_results, client.insert(...) of the row built, and
\* results_summary.append(...): a failed insert is logged by save_model_results
InsertRow(r) ==
    /\ pc[r] = "insert"
    /\ \E db \in DbOutcomes :
        LET sv == save_model_results(Symbol(r), model_result[r],
                                     inflight[r].timestamp, db)
        IN  /\ calls' = [calls EXCEPT ![r] = Append(@, Call("save", r, sv.stored))]
            /\ inflight' = [inflight EXCEPT ![r] = NoRow]
            /\ lastRead' = IF sv.stored THEN NoRead ELSE lastRead
            /\ IF sv.raised
               THEN Crash(r) /\ store' = store
               ELSE /\ store' = IF sv.stored THEN Insert(store, sv.row) ELSE store
                    /\ Continue(r, Append(out[r], SuccessEntry(Symbol(r))),
                           Append(log[r],
                               Logged(IF sv.stored THEN "stored" ELSE "error_saving",
                                      Symbol(r), 0)))
    /\ UNCHANGED <<now, kind, symbols, tasks, prices, model_result>>

\* GET /results/{symbol}
get_model_results(symbol) ==
    /\ \E db \in DbOutcomes, i \in QueryResults(store, symbol) :
        LET data == get_latest_metrics(store, symbol, db, i)
        IN  lastRead' = [symbol |-> symbol,
                         code |-> IF data.found THEN 200 ELSE 404,
                         data |-> data.data, ok |-> db = "ok"]
    /\ UNCHANGED <<store, now, kind, symbols, tasks, pc, idx, prices, model_result,
                   out, response, done, log, calls, inflight>>

Next ==
    \/ \E r \in Reqs, syms \in SymbolLists : trigger_training_sync(r, syms)
    \/ \E r \in Reqs, syms \in SymbolLists : trigger_training(r, syms)
    \/ \E r \in Reqs : StartTask(r)
    \/ \E r \in Reqs : Fetch(r)
    \/ \E r \in Reqs : Fit(r)
    \/ \E r \in Reqs : Save(r)
    \/ \E r \in Reqs : InsertRow(r)

\* the deferred mode and the reads of what it stored
NextRead ==
    \/ \E r \in Reqs, syms \in SymbolLists : trigger_training(r, syms)
    \/ \E r \in Reqs : StartTask(r)
    \/ \E r \in Reqs : Fetch(r)
    \/ \E r \in Reqs : Fit(r)
    \/ \E r \in Reqs : Save(r)
    \/ \E r \in Reqs : InsertRow(r)
    \/ \E symbol \in Symbols : get_model_results(symbol)

Spec == Init /\ [][Next]_vars

(***************************************************************************)
(* save_model_results on any metrics dict: request 1 is about to save the  *)
(* dict, and, when the dict is in nested form only, request 2 is about to  *)
(* save its flattened form.                                                *)
(***************************************************************************)
\* each key holds 0.0 or a value of its own, so that a stored value names its key
FlatValue == [k \in {"ar_coeff", "ma_coeff", "garch_volatility"} |->
                 CASE k = "ar_coeff" -> 1 [] k = "ma_coeff" -> 2 [] OTHER -> 3]
ArmaValue == [k \in {"ar_coef", "ar_coeff", "ma_coef", "ma_coeff"} |->
                 CASE k = "ar_coef" -> 4 [] k = "ar_coeff" -> 5
                   [] k = "ma_coef" -> 6 [] OTHER -> 7]
GarchValue == [k \in {"last_volatility", "garch_volatility"} |->
                  CASE k = "last_volatility" -> 8 [] OTHER -> 9]

\* the dicts over some of the keys of v
MapsOver(v) ==
    UNION {{[k \in D |-> IF z[k] THEN v[k] ELSE 0] : z \in [D -> BOOLEAN]} :
              D \in SUBSET DOMAIN v}

NestedInputs(v) ==
    {NoNested, [kind |-> "scalar", map |-> EmptyMap]}
        \cup {[kind |-> "dict", map |-> m] : m \in MapsOver(v)}

MetricsInputs ==
    {[success |-> TRUE, error |-> "", symbol |-> "", flat |-> f, arma |-> a, garch |-> g] :
        f \in MapsOver(FlatValue), a \in NestedInputs(ArmaValue),
        g \in NestedInputs(GarchValue)}

\* the one value a nested dict gives a coefficient, under either spelling
Spelled(nested, k1, k2) ==
    IF k1 \in DOMAIN nested.map THEN nested.map[k1] ELSE nested.map[k2]

\* a dict in nested form only, each coefficient under at most one spelling
NestedOnly(m) ==
    /\ m.flat = EmptyMap
    /\ m.arma.kind # "scalar" /\ m.garch.kind # "scalar"
    /\ ~({"ar_coef", "ar_coeff"} \subseteq DOMAIN m.arma.map)
    /\ ~({"ma_coef", "ma_coeff"} \subseteq DOMAIN m.arma.map)
    /\ ~({"last_volatility", "garch_volatility"} \subseteq DOMAIN m.garch.map)

\* the same values under the flattened keys
FlattenedForm(m) ==
    [m EXCEPT
        !.arma = NoNested,
        !.garch = NoNested,
        !.flat =
            [k \in {j \in DOMAIN FlatValue :
                        CASE j = "ar_coeff" ->
                               {"ar_coef", "ar_coeff"} \cap DOMAIN m.arma.map # {}
                          [] j = "ma_coeff" ->
                               {"ma_coef", "ma_coeff"} \cap DOMAIN m.arma.map # {}
                          [] OTHER ->
                               {"last_volatility", "garch_volatility"}
                                   \cap DOMAIN m.garch.map # {}} |->
                CASE k = "ar_coeff" -> Spelled(m.arma, "ar_coef", "ar_coeff")
                  [] k = "ma_coeff" -> Spelled(m.arma, "ma_coef", "ma_coeff")
                  [] OTHER -> Spelled(m.garch, "last_volatility", "garch_volatility")]]

\* the symbol request r saves under
SaveSymbol(r) == IF r = 1 THEN "A" ELSE "B"

\* a deferred batch of one symbol that has fetched and fitted it
AboutToSave(r) == r = 1 \/ r = 2

InitNormalizer ==
    /\ store = <<>>
    /\ now = 0
    /\ kind = [r \in Reqs |-> IF AboutToSave(r) THEN "batch" ELSE "none"]
    /\ symbols = [r \in Reqs |-> IF AboutToSave(r) THEN <<SaveSymbol(r)>> ELSE <<>>]
    /\ tasks = [r \in Reqs |-> IF AboutToSave(r) THEN <<<<SaveSymbol(r)>>>> ELSE <<>>]
    /\ idx = [r \in Reqs |-> IF AboutToSave(r) THEN 1 ELSE 0]
    /\ prices = [r \in Reqs |-> NoPrices]
    /\ out = [r \in Reqs |-> <<>>]
    /\ response = [r \in Reqs |->
           IF AboutToSave(r)
           THEN [code |-> 200, status |-> "Batch processing started",
                 results |-> <<>>, queued |-> 1]
           ELSE NoResponse]
    /\ done = [r \in Reqs |-> 0]
    /\ log = [r \in Reqs |-> <<>>]
    /\ calls = [r \in Reqs |->
           IF AboutToSave(r)
           THEN <<[op |-> "fetch", i |-> 1, symbol |-> SaveSymbol(r), ok |-> TRUE],
                  [op |-> "fit", i |-> 1, symbol |-> SaveSymbol(r), ok |-> TRUE]>>
           ELSE <<>>]
    /\ inflight = [r \in Reqs |-> NoRow]
    /\ lastRead = NoRead
    /\ \E m \in MetricsInputs :
          /\ model_result = [r \in Reqs |->
                 IF r = 1 THEN m
                 ELSE IF r = 2 /\ NestedOnly(m) THEN FlattenedForm(m) ELSE NoResult]
          /\ pc = [r \in Reqs |->
                 IF r = 1 \/ (r = 2 /\ NestedOnly(m)) THEN "save"
                 ELSE IF r = 2 THEN "sent" ELSE "idle"]

NextNormalizer ==
    \/ \E r \in Reqs : Save(r)
    \/ \E r \in Reqs : InsertRow(r)

SpecNormalizer == InitNormalizer /\ [][NextNormalizer]_vars

SpecRead == Init /\ [][NextRead]_vars

\* the thread that runs a loop keeps running: every collaborator call returns or
\* raises, and BackgroundTasks starts the task once the response is out
LoopStep(r) == StartTask(r) \/ Fetch(r) \/ Fit(r) \/ Save(r) \/ InsertRow(r)

SpecLive == Init /\ [][Next]_vars /\ \A r \in Reqs : WF_vars(LoopStep(r))

(***************************************************************************)
(* Two overlapping deferred batches and the reads of what they store: both *)
(* requests were acknowledged, both tasks have fetched and fitted their    *)
(* first symbol and are at the call of save_model_results.                 *)
(***************************************************************************)
\* the result of a fit whose estimators gave every parameter the value c
FittedBy(c) ==
    train_and_extract_params([n |-> MaxPrices],
        [arma_raises |-> FALSE, garch_raises |-> FALSE, arma |-> ArmaParams(c),
         garch |-> GarchParamsNew(c), vol |-> c]).value

\* the two requests whose batches overlap
Overlapping(r) == r = 1 \/ r = 2

InitStore ==
    /\ store = <<>>
    /\ now = 0
    /\ kind = [r \in Reqs |-> IF Overlapping(r) THEN "batch" ELSE "none"]
    /\ symbols \in [Reqs -> SymbolLists]
    /\ \A r \in Reqs : symbols[r] = <<>> <=> ~Overlapping(r)
    /\ tasks = [r \in Reqs |-> IF Overlapping(r) THEN <<symbols[r]>> ELSE <<>>]
    /\ pc = [r \in Reqs |-> IF Overlapping(r) THEN "save" ELSE "idle"]
    /\ idx = [r \in Reqs |-> IF Overlapping(r) THEN 1 ELSE 0]
    /\ prices = [r \in Reqs |-> NoPrices]
    /\ \E c \in [Reqs -> 1..MaxFit] :
          model_result = [r \in Reqs |->
                             IF Overlapping(r) THEN FittedBy(c[r]) ELSE NoResult]
    /\ out = [r \in Reqs |-> <<>>]
    /\ response = [r \in Reqs |->
           IF Overlapping(r)
           THEN [code |-> 200, status |-> "Batch processing started",
                 results |-> <<>>, queued |-> Len(symbols[r])]
           ELSE NoResponse]
    /\ done = [r \in Reqs |-> 0]
    /\ log = [r \in Reqs |-> <<>>]
    /\ calls = [r \in Reqs |->
           IF Overlapping(r)
           THEN <<[op |-> "fetch", i |-> 1, symbol |-> symbols[r][1], ok |-> TRUE],
                  [op |-> "fit", i |-> 1, symbol |-> symbols[r][1], ok |-> TRUE]>>
           ELSE <<>>]
    /\ inflight = [r \in Reqs |-> NoRow]
    /\ lastRead = NoRead

NextStore ==
    \/ \E r \in Reqs : Fetch(r)
    \/ \E r \in Reqs : Fit(r)
    \/ \E r \in Reqs : Save(r)
    \/ \E r \in Reqs : InsertRow(r)
    \/ \E symbol \in Symbols : get_model_results(symbol)

SpecStore == InitStore /\ [][NextStore]_vars


(***************************************************************************)
(* Properties.                                                             *)
(***************************************************************************)
\* the calls of request r to one collaborator, in order
CallsOf(r, op) == SelectSeq(calls[r], LAMBDA c : c.op = op)

OkFits(r) == SelectSeq(calls[r], LAMBDA c : c.op = "fit" /\ c.ok)

\* the rows requests 1..n inserted
RECURSIVE StoredBy(_)
StoredBy(n) ==
    IF n = 0 THEN 0
    ELSE StoredBy(n - 1) + Len(SelectSeq(calls[n], LAMBDA c : c.op = "save" /\ c.ok))

\* request r has run its loop to the end
Finished(r) ==
    \/ kind[r] = "sync" /\ response[r].code = 200
    \/ kind[r] = "batch" /\ tasks[r] # <<>> /\ done[r] = Len(tasks[r])

\* C1: synchronous processing never raises, whatever the Price Source and the
\* estimators do: no 500, and the response holds between 0 and N records for N symbols.
C1_SyncNeverRaises ==
    \A r \in Reqs : kind[r] = "sync" =>
        /\ pc[r] # "crashed"
        /\ response[r].code \in {0, 200, 400}
        /\ Len(out[r]) <= Len(symbols[r])
        /\ response[r].code = 200 =>
              /\ Len(response[r].results) \in 0..Len(symbols[r])
              /\ Len(calls[r]) >= Len(symbols[r])

\* a finished synchronous request of two symbols: one fit failed, one record returned
C1_Witness ==
    \E r \in Reqs :
        /\ kind[r] = "sync" /\ response[r].code = 200
        /\ Len(symbols[r]) = 2 /\ Len(response[r].results) = 1
        /\ \E k \in DOMAIN calls[r] : calls[r][k].op = "fit" /\ ~calls[r][k].ok

\* C2: a symbol whose price series has fewer than 10 observations never reaches the
\* fitter: no fit and no save follows its fetch, the synchronous results are those of
\* the successful fits only, and every stored row comes from a save that followed one.
C2_ShortSeriesSkipped ==
    /\ \A r \in Reqs :
        /\ pc[r] = "fit" => prices[r].n >= 10
        /\ \A k \in DOMAIN calls[r] :
              (calls[r][k].op = "fetch" /\ ~calls[r][k].ok) =>
                  \A j \in DOMAIN calls[r] : calls[r][j].i = calls[r][k].i => j = k
        /\ \A k \in DOMAIN calls[r] :
              calls[r][k].op \in {"fit", "save"} =>
                  /\ k > 1
                  /\ calls[r][k - 1].i = calls[r][k].i
                  /\ calls[r][k - 1].ok
                  /\ calls[r][k - 1].op = (IF calls[r][k].op = "fit" THEN "fetch" ELSE "fit")
        /\ kind[r] = "sync" =>
              /\ Len(out[r]) = Len(OkFits(r))
              /\ \A k \in DOMAIN out[r] : out[r][k].symbol = OkFits(r)[k].symbol
              /\ CallsOf(r, "save") = <<>>
    /\ Len(store) = StoredBy(MaxReqs)

\* a finished deferred batch that skipped a short series and stored the other symbol,
\* beside a synchronous request that skipped one symbol
C2_Witness ==
    \E r \in Reqs :
        /\ kind[r] = "batch" /\ Finished(r)
        /\ \E k \in DOMAIN log[r] : log[r][k].tag = "skip_not_enough"
        /\ \E k \in DOMAIN log[r] : log[r][k].tag = "stored"
        /\ \E q \in Reqs :
              /\ kind[q] = "sync" /\ Finished(q)
              /\ Len(out[q]) < Len(symbols[q])
              /\ \E k \in DOMAIN calls[q] : calls[q][k].op = "fetch" /\ ~calls[q][k].ok


\* C3: an empty symbol list is answered 400 by either endpoint before anything is
\* processed: no task is scheduled for it and no collaborator is ever called for it.
C3_EmptyListRejected ==
    \A r \in Reqs : (kind[r] # "none" /\ symbols[r] = <<>>) =>
        /\ response[r].code = 400
        /\ pc[r] = "sent"
        /\ tasks[r] = <<>>
        /\ calls[r] = <<>>
        /\ out[r] = <<>> /\ log[r] = <<>> /\ done[r] = 0

\* both endpoints have answered an empty list
C3_Witness ==
    \E r, q \in Reqs :
        /\ kind[r] = "sync" /\ symbols[r] = <<>> /\ response[r].code = 400
        /\ kind[q] = "batch" /\ symbols[q] = <<>> /\ response[q].code = 400

\* the positions the loop of request r has fetched so far
Fetched(r) == [k \in DOMAIN CallsOf(r, "fetch") |-> CallsOf(r, "fetch")[k].i]

\* C4: no failure of a symbol ends the batch: the loop never crashes, it fetches the
\* symbols one after the other whatever became of the previous ones, a finished batch
\* has fetched every symbol of its list, and the synchronous results are exactly the
\* successful fits.
C4_FailureDoesNotAbort ==
    \A r \in Reqs :
        /\ pc[r] # "crashed"
        /\ Fetched(r) = [k \in DOMAIN Fetched(r) |-> k]
        /\ \A k \in DOMAIN calls[r] : calls[r][k].symbol = symbols[r][calls[r][k].i]
        /\ pc[r] = "fetch" => Len(Fetched(r)) = idx[r] - 1
        /\ pc[r] \in {"fit", "save", "insert"} => Len(Fetched(r)) = idx[r]
        /\ Finished(r) => Len(Fetched(r)) = Len(symbols[r])
        /\ (kind[r] = "sync" /\ Finished(r)) =>
              /\ Len(response[r].results) = Len(OkFits(r))
              /\ \A k \in DOMAIN OkFits(r) :
                    response[r].results[k].symbol = OkFits(r)[k].symbol

\* a finished synchronous request whose first symbol failed in the fitter and whose
\* second symbol is the one record returned, and a finished deferred batch whose first
\* symbol was skipped and whose second symbol was stored
C4_Witness ==
    \E r, q \in Reqs :
        /\ kind[r] = "sync" /\ Finished(r) /\ Len(symbols[r]) = 2
        /\ calls[r][2].op = "fit" /\ ~calls[r][2].ok
        /\ Len(response[r].results) = 1
        /\ response[r].results[1].symbol = symbols[r][2]
        /\ kind[q] = "batch" /\ Finished(q) /\ Len(symbols[q]) = 2
        /\ ~calls[q][1].ok
        /\ log[q][2].tag = "stored"

\* C5: a non-empty /train_batch request schedules one task, for the whole list,
\* and is acknowledged before any call of the batch is made; the acknowledgment
\* names how many symbols were queued and no outcome.
C5_OneDeferredTask ==
    \A r \in Reqs : (kind[r] = "batch" /\ symbols[r] # <<>>) =>
        /\ tasks[r] = <<symbols[r]>>
        /\ response[r].code = 200
        /\ response[r].status = "Batch processing started"
        /\ response[r].results = <<>>
        /\ response[r].queued = Len(symbols[r])
        /\ pc[r] = "sent" /\ done[r] = 0 => calls[r] = <<>>
        /\ done[r] <= 1

\* the acknowledgment is out and the task of a two-symbol batch has made no call yet
C5_Witness ==
    \E r \in Reqs :
        /\ kind[r] = "batch" /\ Len(symbols[r]) = 2
        /\ response[r].code = 200
        /\ pc[r] = "fetch" /\ idx[r] = 1 /\ calls[r] = <<>>

\* the steps of request r
Steps(r) == <<pc[r], idx[r], calls[r], out[r], response[r]>>

\* C10: the synchronous mode never stores: no step of a synchronous request changes
\* the table, and it never calls save_model_results.
C10_SyncNeverStores ==
    [][\A r \in Reqs :
          (kind'[r] = "sync" /\ Steps(r)' # Steps(r)) =>
              /\ store' = store
              /\ CallsOf(r, "save")' = <<>>
              /\ pc'[r] # "save"]_vars

\* a synchronous request has returned a record while the table holds a row of the
\* same symbol stored by a deferred batch
C10_Witness ==
    \E r \in Reqs :
        /\ kind[r] = "sync" /\ Finished(r)
        /\ Len(response[r].results) = 1
        /\ \E k \in DOMAIN store : store[k].symbol = response[r].results[1].symbol
        /\ Len(store) = 1


\* the row stored under a symbol that has one row
RowOf(symbol) == store[CHOOSE k \in DOMAIN store : store[k].symbol = symbol]

\* request r has called save_model_results, and the row was inserted
Saved(r) == CallsOf(r, "save") # <<>>
SavedOk(r) == Saved(r) /\ CallsOf(r, "save")[1].ok

\* the columns of a row that hold metrics
MetricColumns(row) == DOMAIN row \ {"timestamp", "symbol"}

\* none of the three candidates of a field is in the dict
Absent(m, fk, nested, k1, k2) ==
    fk \notin DOMAIN m.flat /\ {k1, k2} \cap DOMAIN nested.map = {}

\* a lookup reaches an "arma" or "garch" entry that is no dict
ScalarConsulted(m) ==
    \/ m.arma.kind = "scalar"
         /\ (~Truthy(m.flat, "ar_coeff") \/ ~Truthy(m.flat, "ma_coeff"))
    \/ m.garch.kind = "scalar" /\ ~Truthy(m.flat, "garch_volatility")

C7_FallbackEquivalence ==
    (SavedOk(1) /\ SavedOk(2) /\ NestedOnly(model_result[1])) =>
        /\ model_result[2] = FlattenedForm(model_result[1])
        /\ RowOf("A").ar_param = RowOf("B").ar_param
        /\ RowOf("A").ma_param = RowOf("B").ma_param
        /\ RowOf("A").volatility = RowOf("B").volatility

\* both forms are stored: ar under ar_coef, ma under ma_coeff, volatility under
\* last_volatility, and the rows hold these values
C7_Witness ==
    /\ SavedOk(1) /\ SavedOk(2)
    /\ model_result[1].flat = EmptyMap
    /\ DOMAIN model_result[1].arma.map = {"ar_coef", "ma_coeff"}
    /\ DOMAIN model_result[1].garch.map = {"last_volatility"}
    /\ DOMAIN model_result[2].flat = {"ar_coeff", "ma_coeff", "garch_volatility"}
    /\ RowOf("A").ar_param = 4 /\ RowOf("B").ar_param = 4
    /\ RowOf("A").ma_param = 7 /\ RowOf("B").ma_param = 7
    /\ RowOf("A").volatility = 8 /\ RowOf("B").volatility = 8


\* a step that is a GET /results of the symbol read last, with no insert since
ReadAgain ==
    /\ lastRead.code # 0 /\ lastRead'.code # 0
    /\ lastRead'.symbol = lastRead.symbol
    /\ store' = store

\* what a read answered
Answer(read) == [code |-> read.code, data |-> read.data]

\* C8 as stated: a repeated read with no write in between answers as the one before,
\* and no read changes the table.
C8_ReadsIdempotent ==
    [][/\ ReadAgain => Answer(lastRead)' = Answer(lastRead)
       /\ lastRead' # lastRead => (store' = store \/ lastRead' = NoRead)]_vars

\* C9: a symbol with no row is answered 404 and no data, never a record of defaults;
\* a record is answered only for a symbol that has a row, and it is one of its rows.
C9_NotFoundWithoutRecord ==
    /\ lastRead.code \in {0, 200, 404}
    /\ (lastRead.code # 0 /\ RowsOf(store, lastRead.symbol) = {}) => lastRead.code = 404
    /\ lastRead.code = 404 => lastRead.data = NoData
    /\ lastRead.code = 200 =>
          \E k \in RowsOf(store, lastRead.symbol) :
              /\ lastRead.data.symbol = store[k].symbol
              /\ lastRead.data.ar_coeff = store[k].ar_param
              /\ lastRead.data.ma_coeff = store[k].ma_param
              /\ lastRead.data.garch_volatility = store[k].volatility
              /\ lastRead.data.calculated_at = store[k].timestamp

\* the query succeeded and found no row of A while B has one
C9_Witness ==
    /\ lastRead.code = 404 /\ lastRead.ok /\ lastRead.symbol = "A"
    /\ RowsOf(store, "A") = {}
    /\ RowsOf(store, "B") # {}



\* C11: the synchronous response lists the successful symbols in the order of the
\* input list: its k-th record is the result of the k-th successful fit, tagged with
\* the symbol at that fit's position of the input, and the positions increase.
C11_SyncResultsOrdered ==
    \A r \in Reqs : (kind[r] = "sync" /\ response[r].code = 200) =>
        LET res == response[r].results
            fits == OkFits(r)
        IN  /\ DOMAIN res = DOMAIN fits
            /\ \A k \in DOMAIN res :
                  /\ res[k].success
                  /\ DOMAIN res[k].flat = FlatKeys
                  /\ res[k].symbol = symbols[r][fits[k].i]
            /\ \A j, k \in DOMAIN res : j < k => fits[j].i < fits[k].i

\* the list <<"B", "A">> was answered with the record of B, then the record of A
C11_Witness ==
    \E r \in Reqs :
        /\ kind[r] = "sync" /\ response[r].code = 200
        /\ symbols[r] = <<"B", "A">>
        /\ Len(response[r].results) = 2
        /\ response[r].results[1].symbol = "B"
        /\ response[r].results[2].symbol = "A"


\* the entry the loop of request r logs in this step for the symbol it is at
OutcomeLogged(r) == log'[r][Len(log[r]) + 1].tag

\* C12: a symbol whose price series passed the gate but gives fewer than 10 returns
\* (10 prices, 9 returns) is skipped for insufficient data: the step that handles it
\* logs a skip and no training failure, and no estimator outcome matters to it.
C12_NineReturnsSkipped ==
    [][\A r \in Reqs :
          (pc[r] = "fit" /\ pc'[r] # "fit"
             /\ ReturnsLen(prices[r]) < MinObservations) =>
              /\ OutcomeLogged(r) \in {"skip_insufficient", "skip_not_enough"}
              /\ OutcomeLogged(r) # "training_failed"
              /\ \A est \in EstimatorOutcomes :
                    ~train_and_extract_params(prices[r], est).value.success]_vars


\* the value a dict holds under a key, 0.0 standing for a key that is absent
Held(m, k) == IF k \in DOMAIN m THEN m[k] ELSE 0

\* the first of three candidates that is not 0.0, else 0.0
FirstMatch(c1, c2, c3) ==
    IF c1 # 0 THEN c1 ELSE IF c2 # 0 THEN c2 ELSE IF c3 # 0 THEN c3 ELSE 0

\* C13: each stored metric is the first candidate, in the fixed order, that is not
\* 0.0: the flattened key, then the first nested spelling, then the second, then 0.0;
\* a candidate of exactly 0.0 counts as absent.
C13_FirstMatchPriority ==
    \A r \in Reqs : SavedOk(r) =>
        LET m == model_result[r]
            row == RowOf(SaveSymbol(r))
        IN  /\ row.ar_param =
                  FirstMatch(Held(m.flat, "ar_coeff"), Held(m.arma.map, "ar_coef"),
                             Held(m.arma.map, "ar_coeff"))
            /\ row.ma_param =
                  FirstMatch(Held(m.flat, "ma_coeff"), Held(m.arma.map, "ma_coef"),
                             Held(m.arma.map, "ma_coeff"))
            /\ row.volatility =
                  FirstMatch(Held(m.flat, "garch_volatility"),
                             Held(m.garch.map, "last_volatility"),
                             Held(m.garch.map, "garch_volatility"))

\* a flattened ar_coeff of 0.0 gives way to the nested ar_coef, which wins over the
\* nested ar_coeff; a flattened ma_coeff wins over both nested spellings; a nested
\* last_volatility of 0.0 gives way to the nested garch_volatility
C13_Witness ==
    /\ SavedOk(1)
    /\ Held(model_result[1].flat, "ar_coeff") = 0
    /\ "ar_coeff" \in DOMAIN model_result[1].flat
    /\ model_result[1].arma.map = ArmaValue
    /\ Held(model_result[1].flat, "ma_coeff") = 2
    /\ "garch_volatility" \notin DOMAIN model_result[1].flat
    /\ DOMAIN model_result[1].garch.map = {"last_volatility", "garch_volatility"}
    /\ Held(model_result[1].garch.map, "last_volatility") = 0
    /\ Held(model_result[1].garch.map, "garch_volatility") = 9
    /\ RowOf("A").ar_param = 4 /\ RowOf("A").ma_param = 2 /\ RowOf("A").volatility = 9


\* the entries of results_summary, by the symbol each reports
Summary(r) == [k \in DOMAIN out[r] |-> out[r][k].symbol]

\* the symbols request r has called save_model_results for, in order
SavedSymbols(r) == [k \in DOMAIN CallsOf(r, "save") |-> CallsOf(r, "save")[k].symbol]

\* C14: a failed persist is swallowed: the deferred loop never crashes, every symbol
\* it called save_model_results for is in the summary as a success whether or not the
\* row was inserted, and after a failed save the loop goes on to the next symbol.
C14_FailedPersistSwallowed ==
    \A r \in Reqs : kind[r] = "batch" =>
        /\ pc[r] # "crashed"
        /\ Summary(r) = SavedSymbols(r)
        /\ \A k \in DOMAIN out[r] : out[r][k] = SuccessEntry(out[r][k].symbol)
        /\ \A k \in DOMAIN calls[r] :
              (calls[r][k].op = "save" /\ ~calls[r][k].ok) =>
                  /\ \E j \in DOMAIN log[r] :
                        log[r][j] = Logged("error_saving", calls[r][k].symbol, 0)
                  /\ IF calls[r][k].i = Len(symbols[r])
                     THEN Finished(r)
                     ELSE IF k = Len(calls[r])
                     THEN pc[r] = "fetch" /\ idx[r] = calls[r][k].i + 1
                     ELSE calls[r][k + 1].op = "fetch"
                            /\ calls[r][k + 1].i = calls[r][k].i + 1

\* a finished batch of two symbols: the insert of the first failed, the second was
\* stored, and the summary reports both as successes
C14_Witness ==
    \E r \in Reqs :
        /\ kind[r] = "batch" /\ Finished(r) /\ Len(symbols[r]) = 2
        /\ Len(calls[r]) = 6
        /\ calls[r][3].op = "save" /\ ~calls[r][3].ok
        /\ calls[r][6].op = "save" /\ calls[r][6].ok
        /\ Summary(r) = symbols[r]
        /\ Len(store) = 1


\* request r ends a call of save_model_results in this step
SaveEnds(r) == Len(CallsOf(r, "save")') = Len(CallsOf(r, "save")) + 1

\* the call of save_model_results request r ends in this step inserted its row
SaveStores(r) == SaveEnds(r) /\ calls'[r][Len(calls'[r])].ok

\* C15: the table is append-only: a step leaves it as it is or adds one row at its
\* end, the rows it held staying as they were; a row is added exactly by a store that
\* succeeds, and it is the row that store built, for its symbol and with its
\* timestamp; a store that fails and a read add nothing.
C15_AppendOnly ==
    [][/\ \/ store' = store
          \/ /\ Len(store') = Len(store) + 1
             /\ SubSeq(store', 1, Len(store)) = store
       /\ \A r \in Reqs :
             /\ SaveStores(r) =>
                   /\ store' = Append(store, inflight[r])
                   /\ inflight[r].symbol = Symbol(r)
                   /\ inflight[r].timestamp <= now
             /\ (SaveEnds(r) /\ ~SaveStores(r)) => store' = store
       /\ store' # store => \E r \in Reqs : SaveStores(r)
       /\ (lastRead' # lastRead /\ lastRead' # NoRead) => store' = store]_vars

\* the table holds two rows of one symbol, the later one beside the earlier one, and
\* a read has answered the later one
C15_Witness ==
    /\ Len(store) = 2
    /\ store[1].symbol = store[2].symbol
    /\ store[1].timestamp < store[2].timestamp
    /\ store[1].ar_param # store[2].ar_param
    /\ lastRead.code = 200 /\ lastRead.symbol = store[1].symbol
    /\ lastRead.data.calculated_at = store[2].timestamp


\* the rows requests 1..n inserted for a symbol
RECURSIVE StoredFor(_, _)
StoredFor(n, symbol) ==
    IF n = 0 THEN 0
    ELSE StoredFor(n - 1, symbol)
           + Len(SelectSeq(calls[n],
                     LAMBDA c : c.op = "save" /\ c.ok /\ c.symbol = symbol))

\* the two overlapping batches have run to the end
BothFinished == \A r \in Reqs : Overlapping(r) => Finished(r)

LastWritten(symbol) ==
    store[CHOOSE k \in RowsOf(store, symbol) : \A j \in RowsOf(store, symbol) : j <= k]

\* C17: a later write supersedes the earlier ones: a read of a symbol answers the
\* ar_coeff, ma_coeff and garch_volatility of the store of that symbol that completed
\* last, overlapping batches included.
C17_LastWriteReadBack ==
    (lastRead.ok /\ RowsOf(store, lastRead.symbol) # {}) =>
        /\ lastRead.code = 200
        /\ lastRead.data.ar_coeff = LastWritten(lastRead.symbol).ar_param
        /\ lastRead.data.ma_coeff = LastWritten(lastRead.symbol).ma_param
        /\ lastRead.data.garch_volatility = LastWritten(lastRead.symbol).volatility

\* the write that completed last carries the earlier timestamp, and the read answers
\* the values of the other write
C17_StaleWriteLast ==
    /\ Len(store) = 2
    /\ store[1].symbol = "A" /\ store[2].symbol = "A"
    /\ store[1].timestamp > store[2].timestamp
    /\ lastRead.ok /\ lastRead.symbol = "A"
    /\ lastRead.data.ar_coeff = store[1].ar_param
    /\ lastRead.data.ar_coeff # store[2].ar_param


\* the successful fits of requests 1..n for a symbol in deferred mode
RECURSIVE FittedFor(_, _)
FittedFor(n, symbol) ==
    IF n = 0 THEN 0
    ELSE FittedFor(n - 1, symbol)
           + (IF kind[n] = "batch"
              THEN Len(SelectSeq(OkFits(n), LAMBDA c : c.symbol = symbol))
              ELSE 0)

\* the positions of its list for which request r has called an operation
Positions(r, op) == {calls[r][k].i : k \in {j \in DOMAIN calls[r] : calls[r][j].op = op}}

\* C18: in deferred mode a row is stored for a symbol only after the fitter reported
\* success for it in that batch: save_model_results is reached only at a position
\* whose fit succeeded, a symbol has no more rows than successful fits, and a batch
\* whose symbols were all skipped or failed leaves the table without a row of its own.
C18_StoredOnlyAfterSuccess ==
    /\ \A r \in Reqs :
          /\ Positions(r, "save") \subseteq {c.i : c \in {OkFits(r)[k] : k \in DOMAIN OkFits(r)}}
          /\ pc[r] \in {"save", "insert"} =>
                /\ kind[r] = "batch"
                /\ calls[r][Len(calls[r])] = Call("fit", r, TRUE)
          /\ \A k \in DOMAIN log[r] :
                log[r][k].tag \in {"stored", "error_saving"} =>
                    \E j \in DOMAIN OkFits(r) : OkFits(r)[j].symbol = log[r][k].symbol
    /\ \A symbol \in Symbols :
          Cardinality(RowsOf(store, symbol)) <= FittedFor(MaxReqs, symbol)

\* a finished batch of two different symbols: the first was skipped for no data, the
\* second failed in the fitter, and the table has no row, while another finished
\* batch failed on its first symbol and stored its second
C18_Witness ==
    \E r, q \in Reqs :
        /\ kind[r] = "batch" /\ Finished(r) /\ Len(symbols[r]) = 2
        /\ symbols[r][1] # symbols[r][2]
        /\ log[r][1].tag = "skip_no_data"
        /\ log[r][2].tag = "training_failed"
        /\ kind[q] = "batch" /\ Finished(q) /\ Len(symbols[q]) = 2
        /\ symbols[q][1] # symbols[q][2]
        /\ log[q][1].tag = "training_failed"
        /\ log[q][2].tag = "stored"
        /\ Len(store) = 1 /\ store[1].symbol = symbols[q][2]


\* the place of an operation among the steps of one symbol
Rank(op) == CASE op = "fetch" -> 1 [] op = "fit" -> 2 [] OTHER -> 3

\* C19: a batch is processed strictly in sequence and in the order of its list: the
\* calls made for a request are those of position 1, then those of position 2, and so
\* on, each for the symbol at that position of the input; within a position the fetch
\* comes first, then the fit, then in deferred mode the save; and every step of a
\* position has ended when the fetch of the next position is made.
C19_SequentialInOrder ==
    \A r \in Reqs :
        /\ \A k \in DOMAIN calls[r] :
              /\ calls[r][k].i \in DOMAIN symbols[r]
              /\ calls[r][k].symbol = symbols[r][calls[r][k].i]
              /\ calls[r][k].op = "fetch" =>
                    calls[r][k].i = (IF k = 1 THEN 1 ELSE calls[r][k - 1].i + 1)
              /\ calls[r][k].op # "fetch" =>
                    /\ k > 1
                    /\ calls[r][k - 1].i = calls[r][k].i
                    /\ Rank(calls[r][k - 1].op) + 1 = Rank(calls[r][k].op)
        /\ \A j, k \in DOMAIN calls[r] : j < k => calls[r][j].i <= calls[r][k].i
        /\ inflight[r] # NoRow => pc[r] = "insert"
        /\ pc[r] \in {"fit", "save", "insert"} =>
              /\ calls[r] # <<>>
              /\ calls[r][Len(calls[r])].i = idx[r]
              /\ Rank(calls[r][Len(calls[r])].op) = (IF pc[r] = "fit" THEN 1 ELSE 2)
        /\ pc[r] = "fetch" =>
              idx[r] = (IF calls[r] = <<>> THEN 1 ELSE calls[r][Len(calls[r])].i + 1)

\* a finished deferred batch of <<"A", "B">> made its calls as fetch, fit, save of A,
\* then fetch, fit, save of B, and a finished synchronous request of <<"B", "A">> as
\* fetch, fit of B, then fetch, fit of A
C19_Witness ==
    \E r, q \in Reqs :
        /\ kind[r] = "batch" /\ Finished(r) /\ symbols[r] = <<"A", "B">>
        /\ [k \in DOMAIN calls[r] |-> <<calls[r][k].op, calls[r][k].symbol>>] =
              << <<"fetch", "A">>, <<"fit", "A">>, <<"save", "A">>,
                 <<"fetch", "B">>, <<"fit", "B">>, <<"save", "B">> >>
        /\ kind[q] = "sync" /\ Finished(q) /\ symbols[q] = <<"B", "A">>
        /\ [k \in DOMAIN calls[q] |-> <<calls[q][k].op, calls[q][k].symbol>>] =
              << <<"fetch", "B">>, <<"fit", "B">>, <<"fetch", "A">>, <<"fit", "A">> >>


\* how many calls of an operation request r has made for position i of its list
Times(r, op, i) ==
    Cardinality({k \in DOMAIN calls[r] : calls[r][k].op = op /\ calls[r][k].i = i})

\* each position of the list of request r has had its one outcome
OnceEach(r) ==
    \A i \in DOMAIN symbols[r] :
        /\ Times(r, "fetch", i) <= 1
        /\ Times(r, "fit", i) <= 1
        /\ Times(r, "save", i) <= 1
        /\ Times(r, "fit", i) + Times(r, "save", i) > 0 => Times(r, "fetch", i) = 1
        /\ Finished(r) => Times(r, "fetch", i) = 1

\* a request with a list to process has been received
Accepted(r) == kind[r] # "none" /\ symbols[r] # <<>>

\* C20: every batch terminates, and each occurrence of a symbol in its list gets one
\* fetch, at most one fit and at most one save: no step is made a second time, and a
\* finished batch has made as many fetches as its list has symbols.
C20_TerminatesOnceEach ==
    /\ [](\A r \in Reqs :
             /\ OnceEach(r)
             /\ Len(calls[r]) <= 3 * Len(symbols[r])
             /\ Finished(r) => Len(CallsOf(r, "fetch")) = Len(symbols[r]))
    /\ \A r \in Reqs : Accepted(r) ~> (Finished(r) /\ pc[r] = "sent")

\* a deferred batch of <<"A", "A">> has ended: the first occurrence failed in the
\* fitter and was not fetched again, the second was fetched, fitted and saved once
C20_Witness ==
    \E r \in Reqs :
        /\ kind[r] = "batch" /\ Finished(r) /\ symbols[r] = <<"A", "A">>
        /\ Times(r, "fetch", 1) = 1 /\ Times(r, "fit", 1) = 1 /\ Times(r, "save", 1) = 0
        /\ Times(r, "fetch", 2) = 1 /\ Times(r, "fit", 2) = 1 /\ Times(r, "save", 2) = 1
        /\ Len(calls[r]) = 5

=========================================================================
